---- MODULE Spec2Model ----
(***************************************************************************)
(* AppBundleReconciler (controllers/appbundle_controller.go).              *)
(*                                                                         *)
(* One worker per AppBundle identity runs Reconcile; every call to the     *)
(* object store (bundle Get/Update, PlacementDecision List, ManifestWork   *)
(* Get/Create/Update/List/Delete) is one atomic step, and the steps of     *)
(* different workers and of the external actors interleave freely.         *)
(***************************************************************************)
EXTENDS Integers, Sequences, FiniteSets, TLC

\* ------------------------------------------------------------- universe
Bundles == {"b1", "b2"}                 \* request identities (one worker each)
Clusters == {"east", "west"}            \* ManifestWork namespaces
Names == {"app", "web"}
Keys == Clusters \X Names               \* <<namespace, name>> of a ManifestWork
KeyOrder == << <<"east", "app">>, <<"east", "web">>,
               <<"west", "app">>, <<"west", "web">> >>   \* store list order

NsOf(b) == IF b = "b1" THEN "ns1" ELSE "ns2"     \* req.Namespace
UidOf(b) == IF b = "b1" THEN "u1" ELSE "u2"      \* ObjectMeta.UID
NoKey == <<"", "">>
NoLabel == "none"                       \* key absent from a label map

VARIABLES
    bundles,     \* AppBundle store: request identity -> stored object
    works,       \* ManifestWork store: function on the keys that exist
    decisions,   \* PlacementDecision store, in list order
    pc,          \* position of each worker inside Reconcile
    local,       \* Reconcile's local variables, per worker
    fresh,       \* does the worker's copy carry the stored resourceVersion
    result,      \* what the worker's Reconcile returned, "none" while it runs
    log,         \* store calls of the worker's running event, with outcomes;
                 \* after the return, the event's last call
    snap         \* prior: the worker's previous event returned success and
                 \*   nobody else has written anything since that event began;
                 \* quiet: nobody else has written since the current event began;
                 \* same: the current event has not changed a ManifestWork

vars == <<bundles, works, decisions, pc, local, fresh, result, log, snap>>

\* ---------------------------------------------------------------- data
DeployFinalizer == "deploy-finalizer"   \* the controller's own token
OtherFinalizer == "other-finalizer"     \* a token some other controller holds

Labels(placement, owned) == [placement |-> placement, owned |-> owned]

Bundle(b, name, placement, manifests, otherFin) ==
    [exists |-> TRUE, name |-> name, ns |-> NsOf(b), uid |-> UidOf(b),
     labels |-> Labels(placement, NoLabel),
     annotations |-> IF b = "b1" THEN "note1" ELSE "note2",
     manifests |-> manifests,
     deleting |-> FALSE,          \* DeletionTimestamp set
     finalizers |-> IF otherFin THEN {OtherFinalizer} ELSE {}]

NoBundle == [Bundle("b1", "app", NoLabel, <<>>, FALSE) EXCEPT
                !.exists = FALSE, !.name = "", !.ns = "", !.uid = "",
                !.annotations = ""]


PayloadOf(b) == IF b = "b1" THEN <<"cm1">> ELSE <<"cm2">>

\* what an AppBundle can look like when it is first seen: complete, without
\* manifests, without a placement label, or held by another controller's finalizer
Complete(b) == [placement |-> "p1", manifests |-> PayloadOf(b), otherFin |-> FALSE]

Held(b) == [Complete(b) EXCEPT !.otherFin = TRUE]

Profiles(b) ==
    IF b = "b1"
    THEN { Complete(b), Held(b), [Complete(b) EXCEPT !.placement = NoLabel] }
    ELSE { Complete(b), [Complete(b) EXCEPT !.manifests = <<>>] }

Decision(ns, placement, clusters) ==
    [ns |-> ns, placement |-> placement, clusters |-> clusters]

\* contents the PlacementDecision store can have
DecisionConfigs ==
    { << Decision("ns1", "p1", <<"east", "west">>),
         Decision("ns2", "p1", <<"east">>) >>,
      << Decision("ns1", "p1", <<"west">>),
         Decision("ns1", "p1", <<"east">>),
         Decision("ns2", "p2", <<"west">>) >> }

InitialDecisions ==
    << Decision("ns1", "p1", <<"east", "west">>),
       Decision("ns2", "p1", <<"east">>) >>

NoUid == ""                             \* ObjectMeta.UID of an object never stored
WorkUid == "assigned"                   \* ... of a ManifestWork the store holds

NoManifest ==
    [name |-> "", namespace |-> "", uid |-> NoUid,
     labels |-> Labels(NoLabel, NoLabel), annotations |-> "", spec |-> <<>>]

NoLocal ==
    [bundle |-> NoBundle, b |-> NoBundle, decision |-> <<>>, i |-> 0,
     existingManifest |-> [key |-> NoKey, obj |-> NoManifest],
     mList |-> <<>>, j |-> 0]

NoWorks == [k \in {} |-> NoManifest]    \* the empty ManifestWork store

NoSnap == [prior |-> FALSE, quiet |-> FALSE, same |-> TRUE]

Fresh == [bundle |-> FALSE, work |-> FALSE]

Entry(op, key, res) == [op |-> op, key |-> key, res |-> res]

\* the bundles have just been created, nothing has been reconciled yet
Created(profiles1, profiles2) ==
    /\ \E n2 \in Names : \E p1 \in profiles1 : \E p2 \in profiles2 :
          bundles = [b \in Bundles |->
              IF b = "b1"
              THEN Bundle(b, "app", p1.placement, p1.manifests, p1.otherFin)
              ELSE Bundle(b, n2, p2.placement, p2.manifests, p2.otherFin)]
    /\ works = NoWorks
    /\ decisions = InitialDecisions
    /\ pc = [b \in Bundles |-> "idle"]
    /\ local = [b \in Bundles |-> NoLocal]
    /\ fresh = [b \in Bundles |-> Fresh]
    /\ result = [b \in Bundles |-> "none"]
    /\ log = [b \in Bundles |-> <<>>]
    /\ snap = [b \in Bundles |-> NoSnap]

Init == Created(Profiles("b1"), Profiles("b2"))

\* ------------------------------------------------------- store semantics
\* the store erases an object once deletion is requested and no finalizer is left
Settle(obj) == IF obj.deleting /\ obj.finalizers = {} THEN NoBundle ELSE obj

\* r.Update writes the submitted object's metadata and spec over the stored one
StoreUpdate(stored, obj) ==
    Settle([stored EXCEPT !.labels = obj.labels,
                          !.annotations = obj.annotations,
                          !.manifests = obj.manifests,
                          !.finalizers = obj.finalizers])

\* Create stores the submitted ManifestWork with the metadata the store assigns
StoreCreate(obj) == [obj EXCEPT !.uid = WorkUid]

Without(f, k) == [x \in (DOMAIN f) \ {k} |-> f[x]]

\* ------------------------------------------------------------- helpers
containsString(slice, s) == s \in slice

\* (mutant) every error of the bundle read is swallowed
IgnoreAnyError(err) == "ok"

\* (mutant) a NotFound error is returned like any other
IgnoreNothing(err) == "err"

\* client.IgnoreNotFound: a NotFound error becomes success
IgnoreNotFound(err) == IF err = "NotFound" THEN "ok" ELSE "err"

\* IgnoreConflict wraps the error of the finalizer-remove update; a Conflict is
\* surfaced to the caller so that the event is redelivered, like any other error
IgnoreConflict(err) == IF err = "ok" THEN "ok" ELSE "err"

getPlacementLabel(bundle) == bundle.labels.placement

\* the decisions of the namespace whose placement label equals placementName
Matching(placementName, placementNamespace) ==
    SelectSeq(decisions,
              LAMBDA d : d.ns = placementNamespace /\ d.placement = placementName)

\* (mutant) an empty decision is returned when nothing matches
getPlacementDecisionOrEmpty(placementName, placementNamespace) ==
    LET pList == Matching(placementName, placementNamespace)
    IN  [err |-> "ok",
         dec |-> IF Len(pList) >= 1 THEN pList[1] ELSE Decision("", "", <<>>)]

\* (mutant) the last matching decision is taken
getPlacementDecisionLast(placementName, placementNamespace) ==
    LET pList == Matching(placementName, placementNamespace)
    IN  IF Len(pList) >= 1 THEN [err |-> "ok", dec |-> pList[Len(pList)]]
        ELSE [err |-> "err", dec |-> Decision("", "", <<>>)]

getPlacementDecision(placementName, placementNamespace) ==
    LET pList == Matching(placementName, placementNamespace)
    IN  IF Len(pList) >= 1 THEN [err |-> "ok", dec |-> pList[1]]
        ELSE [err |-> "err", dec |-> Decision("", "", <<>>)]

generateManifest(bundle, namespace) ==
    [name |-> bundle.name, namespace |-> namespace, uid |-> NoUid,
     labels |-> [bundle.labels EXCEPT !.owned = bundle.uid],
     annotations |-> bundle.annotations,
     spec |-> bundle.manifests]

\* (mutant) the list call reaches one cluster namespace only
ListOneNamespace == SelectSeq(KeyOrder, LAMBDA k : k \in DOMAIN works /\ k[1] = "east")

\* ManifestWorks("").List with empty ListOptions: every ManifestWork there is
ListAll == SelectSeq(KeyOrder, LAMBDA k : k \in DOMAIN works)

\* ------------------------------------------------- one step of a worker
\* Every step makes one store call (entry); nextpc = "idle" is a return from
\* Reconcile with res; wrote is the ManifestWork key the call wrote, if any,
\* and newWorks the ManifestWork store after the call.
Step(b, nextpc, nextlocal, nextfresh, entry, res, wrote, newWorks) ==
    /\ works' = newWorks
    /\ pc' = [pc EXCEPT ![b] = nextpc]
    /\ local' = [local EXCEPT ![b] = IF nextpc = "idle" THEN NoLocal ELSE nextlocal]
    /\ fresh' = [x \in Bundles |->
                    IF x = b THEN (IF nextpc = "idle" THEN Fresh ELSE nextfresh)
                    ELSE IF wrote # NoKey /\ local[x].existingManifest.key = wrote
                         THEN [fresh[x] EXCEPT !.work = FALSE]
                         ELSE fresh[x]]
    /\ log' = [log EXCEPT ![b] = IF nextpc = "idle" THEN <<entry>> ELSE Append(@, entry)]
    /\ result' = [result EXCEPT ![b] = IF nextpc = "idle" THEN res ELSE @]
    /\ snap' = [x \in Bundles |->
                   IF x = b
                   THEN (IF nextpc # "idle"
                         THEN [snap[x] EXCEPT
                                  !.same = ~snap[x].prior \/ (@ /\ newWorks = works)]
                         ELSE [NoSnap EXCEPT !.prior = (res = "ok" /\ snap[x].quiet)])
                   ELSE IF wrote # NoKey THEN NoSnap ELSE snap[x]]

\* a store call that fails for a reason outside the model (timeout, transport)
Fault(b, op, key, res) ==
    /\ Step(b, "idle", NoLocal, Fresh, Entry(op, key, "Transport"), res, NoKey, works)
    /\ UNCHANGED <<bundles, decisions>>

\* a reconciliation event for b is delivered (create/update/delete or resync)
StartReconcile(b) ==
    /\ pc[b] = "idle"
    /\ pc' = [pc EXCEPT ![b] = "Get"]
    /\ log' = [log EXCEPT ![b] = <<>>]
    /\ snap' = [snap EXCEPT ![b].quiet = TRUE, ![b].same = TRUE]
    /\ result' = [result EXCEPT ![b] = "none"]
    /\ UNCHANGED <<bundles, works, decisions, local, fresh>>

\* ------------------------------------------------------------ Reconcile
\* (mutant) the placement is resolved whether or not there is a label
AfterFinalizerResolve(bundle) == "Resolve"

\* where Reconcile goes once the finalizer is known to be registered
AfterFinalizer(bundle) ==
    IF getPlacementLabel(bundle) = NoLabel THEN "idle" ELSE "Resolve"

\* r.Get, then the branch on DeletionTimestamp and the finalizer
ReconcileGet(b) ==
    /\ pc[b] = "Get"
    /\ \/ Fault(b, "GetBundle", NoKey, IgnoreNotFound("Transport"))
       \/ /\ ~bundles[b].exists
          /\ Step(b, "idle", NoLocal, Fresh, Entry("GetBundle", NoKey, "NotFound"),
                  IgnoreNotFound("NotFound"), NoKey, works)
          /\ UNCHANGED <<bundles, decisions>>
       \/ /\ bundles[b].exists
          /\ LET bundle == bundles[b]
                 next == IF ~bundle.deleting
                         THEN IF ~containsString(bundle.finalizers, DeployFinalizer)
                              THEN "AddFinalizer"
                              ELSE AfterFinalizer(bundle)
                         ELSE IF containsString(bundle.finalizers, DeployFinalizer)
                              THEN "SweepList"
                              ELSE "idle"
             IN  Step(b, next, [NoLocal EXCEPT !.bundle = bundle, !.b = bundle],
                      [Fresh EXCEPT !.bundle = TRUE],
                      Entry("GetBundle", NoKey, "ok"), "ok", NoKey, works)
          /\ UNCHANGED <<bundles, decisions>>

\* (mutant) the finalizer is added to the copy and the copy is never submitted
AddFinalizerUnpersisted(b) ==
    /\ pc[b] = "AddFinalizer"
    /\ Step(b, AfterFinalizer(local[b].bundle),
            [local[b] EXCEPT !.b.finalizers = @ \cup {DeployFinalizer}], fresh[b],
            Entry("AddFinalizer", NoKey, "ok"), "ok", NoKey, works)
    /\ UNCHANGED <<bundles, decisions>>

\* controllerutil.AddFinalizer(b) and r.Update(b), then the placement label
AddFinalizer(b) ==
    /\ pc[b] = "AddFinalizer"
    /\ \/ Fault(b, "AddFinalizer", NoKey, "err")
       \/ /\ ~bundles[b].exists \/ ~fresh[b].bundle
          /\ Step(b, "idle", NoLocal, Fresh,
                  Entry("AddFinalizer", NoKey,
                        IF ~bundles[b].exists THEN "NotFound" ELSE "Conflict"),
                  "err", NoKey, works)
          /\ UNCHANGED <<bundles, decisions>>
       \/ /\ bundles[b].exists /\ fresh[b].bundle
          /\ LET nb == [local[b].b EXCEPT !.finalizers = @ \cup {DeployFinalizer}]
             IN  /\ bundles' = [bundles EXCEPT ![b] = StoreUpdate(@, nb)]
                 /\ Step(b, AfterFinalizer(local[b].bundle),
                         [local[b] EXCEPT !.b = nb], fresh[b],
                         Entry("AddFinalizer", NoKey, "ok"), "ok", NoKey, works)
          /\ UNCHANGED decisions

\* (mutant) the length check is dropped
AlwaysSchedule(bundle) == TRUE

\* schedule only non-empty bundles
ShouldSchedule(bundle) == Len(bundle.manifests) > 0

\* getPlacementDecision, then scheduleBundle's loop is entered
Resolve(b) ==
    /\ pc[b] = "Resolve"
    /\ \/ Fault(b, "ListDecisions", NoKey, "err")
       \/ LET bundle == local[b].bundle
              got == getPlacementDecision(getPlacementLabel(bundle), NsOf(b))
              clusters == got.dec.clusters
          IN  /\ IF got.err # "ok"
                 THEN Step(b, "idle", NoLocal, Fresh,
                           Entry("ListDecisions", NoKey, "ok"), "err", NoKey, works)
                 ELSE IF ShouldSchedule(bundle) /\ Len(clusters) > 0
                 THEN Step(b, "ScheduleGet",
                           [local[b] EXCEPT !.decision = clusters, !.i = 1],
                           fresh[b], Entry("ListDecisions", NoKey, "ok"), "ok", NoKey,
                           works)
                 ELSE Step(b, "idle", NoLocal, Fresh,
                           Entry("ListDecisions", NoKey, "ok"), "ok", NoKey, works)
              /\ UNCHANGED <<bundles, decisions>>

\* -------------------------------------------------------- scheduleBundle
\* the cluster the loop is at, the manifest generated for it, and its key
Target(b) == local[b].decision[local[b].i]
Manifest(b) == generateManifest(local[b].bundle, Target(b))
TargetKey(b) == <<Target(b), Manifest(b).name>>

\* generateManifest writes the ownership label into the label map it shares
\* with Reconcile's bundle variable
Generated(b) == [local[b] EXCEPT !.bundle.labels = Manifest(b).labels]

\* where the loop goes after a successful create: "return err" with err = nil
AfterCreate(b) == "idle"

\* where the loop goes after a successful update: the next decision, if any
AfterUpdate(b) ==
    IF local[b].i < Len(local[b].decision) THEN "ScheduleGet" ELSE "idle"

\* ManifestWorks(dec.ClusterName).Get(manifest.Name)
ScheduleGet(b) ==
    /\ pc[b] = "ScheduleGet"
    /\ \/ Fault(b, "GetWork", TargetKey(b), "err")
       \/ /\ TargetKey(b) \notin DOMAIN works
          /\ Step(b, "ScheduleCreate", Generated(b), fresh[b],
                  Entry("GetWork", TargetKey(b), "NotFound"), "ok", NoKey, works)
          /\ UNCHANGED <<bundles, decisions>>
       \/ /\ TargetKey(b) \in DOMAIN works
          /\ Step(b, "ScheduleUpdate",
                  [Generated(b) EXCEPT !.existingManifest =
                       [key |-> TargetKey(b), obj |-> works[TargetKey(b)]]],
                  [fresh[b] EXCEPT !.work = TRUE],
                  Entry("GetWork", TargetKey(b), "ok"), "ok", NoKey, works)
          /\ UNCHANGED <<bundles, decisions>>

\* ManifestWorks(dec.ClusterName).Create(manifest), then "return err"
ScheduleCreate(b) ==
    /\ pc[b] = "ScheduleCreate"
    /\ \/ Fault(b, "CreateWork", TargetKey(b), "err")
       \/ /\ TargetKey(b) \in DOMAIN works
          /\ Step(b, "idle", NoLocal, Fresh,
                  Entry("CreateWork", TargetKey(b), "AlreadyExists"), "err", NoKey, works)
          /\ UNCHANGED <<bundles, decisions>>
       \/ /\ TargetKey(b) \notin DOMAIN works
          /\ Step(b, AfterCreate(b), [local[b] EXCEPT !.i = @ + 1], fresh[b],
                  Entry("CreateWork", TargetKey(b), "ok"), "ok", TargetKey(b),
                  (TargetKey(b) :> StoreCreate(Manifest(b))) @@ works)
          /\ UNCHANGED <<bundles, decisions>>

\* (mutant) the generated manifest is submitted as it is
newManifestFromScratch(existingManifest, manifest) == manifest

\* existingManifest.DeepCopy() with Spec, Labels and Annotations overwritten
newManifest(existingManifest, manifest) ==
    [existingManifest EXCEPT !.spec = manifest.spec,
                             !.labels = manifest.labels,
                             !.annotations = manifest.annotations]

\* ManifestWorks(dec.ClusterName).Update(newManifest)
ScheduleUpdate(b) ==
    /\ pc[b] = "ScheduleUpdate"
    /\ \/ Fault(b, "UpdateWork", TargetKey(b), "err")
       \/ /\ TargetKey(b) \notin DOMAIN works \/ ~fresh[b].work
          /\ Step(b, "idle", NoLocal, Fresh,
                  Entry("UpdateWork", TargetKey(b),
                        IF TargetKey(b) \notin DOMAIN works
                        THEN "NotFound" ELSE "Conflict"),
                  "err", NoKey, works)
          /\ UNCHANGED <<bundles, decisions>>
       \/ /\ TargetKey(b) \in DOMAIN works /\ fresh[b].work
          /\ Step(b, AfterUpdate(b),
                  [local[b] EXCEPT !.i = @ + 1,
                                   !.existingManifest = NoLocal.existingManifest],
                  [fresh[b] EXCEPT !.work = FALSE],
                  Entry("UpdateWork", TargetKey(b), "ok"), "ok", TargetKey(b),
                  [works EXCEPT ![TargetKey(b)] =
                      newManifest(local[b].existingManifest.obj, Manifest(b))])
          /\ UNCHANGED <<bundles, decisions>>

\* ----------------------------------------------- deleteAllChildManifests
\* ManifestWorks("").List(ListOptions{}): the selector built from the bundle's
\* UID is not passed to the call
SweepList(b) ==
    /\ pc[b] = "SweepList"
    /\ \/ Fault(b, "ListWorks", NoKey, "err")
       \/ /\ Step(b, IF Len(ListAll) > 0 THEN "SweepDelete" ELSE "RemoveFinalizer",
                  [local[b] EXCEPT !.mList = ListAll, !.j = 1], fresh[b],
                  Entry("ListWorks", NoKey, "ok"), "ok", NoKey, works)
          /\ UNCHANGED <<bundles, decisions>>

SweepKey(b) == local[b].mList[local[b].j]

\* where the sweep goes after deleting one item
AfterDelete(b) ==
    IF local[b].j < Len(local[b].mList) THEN "SweepDelete" ELSE "RemoveFinalizer"

\* (mutant) a NotFound from Delete is taken for success
AfterDeleteErrorTolerant(b, err) == IF err = "NotFound" THEN AfterDelete(b) ELSE "idle"

\* where the sweep goes when Delete fails: "return err"
AfterDeleteError(b, err) == "idle"

\* ManifestWorks(m.Namespace).Delete(m.Name) for the next listed item
SweepDelete(b) ==
    /\ pc[b] = "SweepDelete"
    /\ \/ Fault(b, "DeleteWork", SweepKey(b), "err")
       \/ /\ SweepKey(b) \notin DOMAIN works
          /\ Step(b, AfterDeleteError(b, "NotFound"),
                  [local[b] EXCEPT !.j = @ + 1], fresh[b],
                  Entry("DeleteWork", SweepKey(b), "NotFound"), "err", NoKey, works)
          /\ UNCHANGED <<bundles, decisions>>
       \/ /\ SweepKey(b) \in DOMAIN works
          /\ Step(b, AfterDelete(b), [local[b] EXCEPT !.j = @ + 1], fresh[b],
                  Entry("DeleteWork", SweepKey(b), "ok"), "ok", SweepKey(b),
                  Without(works, SweepKey(b)))
          /\ UNCHANGED <<bundles, decisions>>

\* (mutant) the whole finalizer list is cleared
WithoutAnyFinalizer(obj) == [obj EXCEPT !.finalizers = {}]

\* (mutant) the finalizer is taken off another copy than the one submitted
KeepFinalizer(obj) == obj

\* controllerutil.RemoveFinalizer(b, DeployFinalizer)
WithoutFinalizer(obj) == [obj EXCEPT !.finalizers = @ \ {DeployFinalizer}]

\* (mutant) the return that ends the deleting branch is missing
RemoveFinalizerFallThrough(b) ==
    /\ pc[b] = "RemoveFinalizer"
    /\ bundles[b].exists /\ fresh[b].bundle
    /\ bundles' = [bundles EXCEPT ![b] = StoreUpdate(@, WithoutFinalizer(local[b].b))]
    /\ Step(b, AfterFinalizer(local[b].bundle), local[b], fresh[b],
            Entry("RemoveFinalizer", NoKey, "ok"), "ok", NoKey, works)
    /\ UNCHANGED decisions

\* controllerutil.RemoveFinalizer(b) and r.Update(b); the item is being deleted
RemoveFinalizer(b) ==
    /\ pc[b] = "RemoveFinalizer"
    /\ \/ Fault(b, "RemoveFinalizer", NoKey, IgnoreConflict("Transport"))
       \/ /\ ~bundles[b].exists \/ ~fresh[b].bundle
          /\ LET err == IF ~bundles[b].exists THEN "NotFound" ELSE "Conflict"
             IN  Step(b, "idle", NoLocal, Fresh,
                      Entry("RemoveFinalizer", NoKey, err),
                      IgnoreConflict(err), NoKey, works)
          /\ UNCHANGED <<bundles, decisions>>
       \/ /\ bundles[b].exists /\ fresh[b].bundle
          /\ LET nb == WithoutFinalizer(local[b].b)
             IN  bundles' = [bundles EXCEPT ![b] = StoreUpdate(@, nb)]
          /\ Step(b, "idle", NoLocal, Fresh,
                  Entry("RemoveFinalizer", NoKey, "ok"), "ok", NoKey, works)
          /\ UNCHANGED decisions

\* ------------------------------------------------------ external actors
\* a delete request: the store sets the deletion timestamp
ExternalDelete(b) ==
    /\ bundles[b].exists /\ ~bundles[b].deleting
    /\ bundles' = [bundles EXCEPT ![b] = Settle([@ EXCEPT !.deleting = TRUE])]
    /\ fresh' = [fresh EXCEPT ![b].bundle = FALSE]
    /\ snap' = [snap EXCEPT ![b] = NoSnap]
    /\ UNCHANGED <<works, decisions, pc, local, result, log>>

\* another controller finishes its own cleanup of a bundle under deletion
ExternalRemoveFinalizer(b) ==
    /\ bundles[b].exists /\ bundles[b].deleting
    /\ OtherFinalizer \in bundles[b].finalizers
    /\ bundles' = [bundles EXCEPT ![b] =
                      Settle([@ EXCEPT !.finalizers = @ \ {OtherFinalizer}])]
    /\ fresh' = [fresh EXCEPT ![b].bundle = FALSE]
    /\ snap' = [snap EXCEPT ![b] = NoSnap]
    /\ UNCHANGED <<works, decisions, pc, local, result, log>>

\* the external scheduler rewrites the placement decisions
ExternalSetDecision ==
    /\ decisions' \in DecisionConfigs \ {decisions}
    /\ snap' = [b \in Bundles |-> NoSnap]
    /\ UNCHANGED <<bundles, works, pc, local, fresh, result, log>>

\* ---------------------------------------------------------------- system
Reconcile(b) ==
    \/ ReconcileGet(b)
    \/ AddFinalizer(b)
    \/ Resolve(b)
    \/ ScheduleGet(b)
    \/ ScheduleCreate(b)
    \/ ScheduleUpdate(b)
    \/ SweepList(b)
    \/ SweepDelete(b)
    \/ RemoveFinalizer(b)

Next ==
    \/ \E b \in Bundles : StartReconcile(b)
    \/ \E b \in Bundles : Reconcile(b)
    \/ \E b \in Bundles : ExternalDelete(b)
    \/ \E b \in Bundles : ExternalRemoveFinalizer(b)
    \/ ExternalSetDecision

Spec == Init /\ [][Next]_vars

\* ------------------------------------------------ vocabulary of the claims
Gone(b) == ~bundles[b].exists

\* the keys of the ManifestWorks of store w whose ownership label is uid
OwnedIn(w, uid) == {k \in DOMAIN w : w[k].labels.owned = uid}
Owned(uid) == OwnedIn(works, uid)

Last(l) == l[Len(l)]

\* this step is a step of worker b inside Reconcile: it makes one store call
Acts(b) == pc[b] # "idle" /\ (pc'[b] # pc[b] \/ log'[b] # log[b])

\* the store calls of b's event up to and including this step's
Event(b) == Append(log[b], Last(log'[b]))

\* this step is worker b making the store call op with outcome res
Did(b, op, res) == Acts(b) /\ Last(log'[b]).op = op /\ Last(log'[b]).res = res

\* this step is worker b returning res from Reconcile
Returns(b, res) == pc[b] # "idle" /\ pc'[b] = "idle" /\ result'[b] = res

\* worker b is back from an event whose last store call was entry
Ended(b, res, entry) == pc[b] = "idle" /\ result[b] = res /\ log[b] = <<entry>>

WorkOps == {"GetWork", "CreateWork", "UpdateWork", "ListWorks", "DeleteWork"}

\* ------------------------------------------------------------------ C1
\* C1: a bundle is never erased from the store while some ManifestWork in any
\* cluster namespace still carries its UID in the ownership label.
C1_FinalizerInvariant ==
    \A b \in Bundles : Gone(b) => Owned(UidOf(b)) = {}

\* a bundle was erased by the finalizer-remove update of its own event while
\* the other bundle still has a ManifestWork
C1_Witness ==
    \E b \in Bundles :
        /\ Gone(b)
        /\ Ended(b, "ok", Entry("RemoveFinalizer", NoKey, "ok"))
        /\ \E x \in Bundles \ {b} : Owned(UidOf(x)) # {}

\* ------------------------------------------------------------------ C2
\* C2: the sweep run for a deleting bundle deletes only ManifestWorks whose
\* ownership label equals that bundle's UID; the ManifestWorks labelled with
\* another bundle's UID are still there after it.
C2_SweepDeletesOnlyOwn ==
    [][\A b \in Bundles :
          Did(b, "DeleteWork", "ok") =>
              \A k \in (DOMAIN works) \ (DOMAIN works') :
                  works[k].labels.owned = UidOf(b)]_vars

\* ------------------------------------------------------------------ C3
\* the clusters the bundle's placement resolves to, as stored
Resolved(b) == Matching(getPlacementLabel(bundles[b]), NsOf(b))

Schedulable(b) ==
    /\ bundles[b].exists /\ ~bundles[b].deleting
    /\ Len(bundles[b].manifests) > 0
    /\ getPlacementLabel(bundles[b]) # NoLabel
    /\ Len(Resolved(b)) >= 1

TargetsOf(b) == {Resolved(b)[1].clusters[n] : n \in DOMAIN Resolved(b)[1].clusters}

\* C3: whenever a reconcile event for a non-deleting bundle with non-empty
\* manifests and a resolved placement returns without error, every cluster of
\* the decision holds a ManifestWork named after the bundle whose spec equals
\* the bundle's manifests.
C3_AllTargetsAfterSuccess ==
    [][\A b \in Bundles :
          (Returns(b, "ok") /\ Schedulable(b)) =>
              \A c \in TargetsOf(b) :
                  /\ <<c, bundles[b].name>> \in DOMAIN works'
                  /\ works'[<<c, bundles[b].name>>].spec = bundles[b].manifests]_vars

\* ------------------------------------------------------------------ C4
\* every item the sweep listed was deleted by this event
SweptAll(b) ==
    /\ \E n \in DOMAIN log[b] : log[b][n] = Entry("ListWorks", NoKey, "ok")
    /\ \A n \in DOMAIN log[b] :
           log[b][n].op \in {"ListWorks", "DeleteWork"} => log[b][n].res = "ok"
    /\ \A j \in DOMAIN local[b].mList :
           \E n \in DOMAIN log[b] :
               log[b][n] = Entry("DeleteWork", local[b].mList[j], "ok")

HasFinalizer(obj) == obj.exists /\ DeployFinalizer \in obj.finalizers

\* C4: the finalizer of a bundle under deletion leaves the stored bundle only in
\* an event whose list call and every delete succeeded; when the list or a
\* delete fails the event returns an error and the stored bundle keeps it.
C4_FinalizerOnlyAfterFullSweep ==
    [][\A b \in Bundles :
          /\ (HasFinalizer(bundles[b]) /\ ~HasFinalizer(bundles'[b])) => SweptAll(b)
          /\ (\E err \in {"Transport", "NotFound"} :
                 Did(b, "ListWorks", err) \/ Did(b, "DeleteWork", err))
             => /\ Returns(b, "err")
                /\ HasFinalizer(bundles'[b])]_vars

\* a delete of the sweep failed, the event returned the error, the finalizer stays
C4_Witness ==
    \E b \in Bundles :
        /\ \E k \in Keys : \E err \in {"Transport", "NotFound"} :
               Ended(b, "err", Entry("DeleteWork", k, err))
        /\ HasFinalizer(bundles[b]) /\ bundles[b].deleting

\* ------------------------------------------------------------------ C5
\* C5: for a bundle whose manifest list is empty no reconcile event creates a
\* ManifestWork, whether or not its placement resolves: its worker makes no
\* create call and no ManifestWork carries its UID.
C5_EmptyBundleNeverScheduled ==
    \A b \in Bundles :
        (bundles[b].exists /\ Len(bundles[b].manifests) = 0) =>
            /\ \A n \in DOMAIN log[b] : log[b][n].op # "CreateWork"
            /\ Owned(UidOf(b)) = {}

\* an event of a bundle without manifests resolved its placement and returned
C5_Witness ==
    \E b \in Bundles :
        /\ bundles[b].exists /\ Len(bundles[b].manifests) = 0
        /\ Len(Resolved(b)) >= 1
        /\ Ended(b, "ok", Entry("ListDecisions", NoKey, "ok"))

\* ------------------------------------------------------------------ C6
\* C6: a successful reconcile event run right after a successful one, with the
\* bundle, the decisions and the ManifestWorks left alone by everybody else
\* since the first one began, leaves the ManifestWorks exactly as the first
\* event left them: none of its calls changes the ManifestWork store.
C6_ConvergenceIdempotent ==
    [][\A b \in Bundles :
          (Returns(b, "ok") /\ snap[b].prior /\ Schedulable(b)) =>
              (snap[b].same /\ works' = works)]_vars

\* ------------------------------------------------------------------ C7
\* this step is worker b finding no decision for its bundle's placement label
FindsNoDecision(b) ==
    /\ Did(b, "ListDecisions", "ok")
    /\ Len(Matching(getPlacementLabel(local[b].bundle), NsOf(b))) = 0

NoWorkCalls(l) == \A n \in DOMAIN l : l[n].op \notin WorkOps

\* C7 (as claimed): when no PlacementDecision matches the placement label of a
\* non-deleting bundle, the event returns success and writes no ManifestWork.
C7_UnresolvedReturnsSuccess ==
    [][\A b \in Bundles :
          FindsNoDecision(b) => (Returns(b, "ok") /\ works' = works)]_vars

\* C7 (amended): when no PlacementDecision matches the placement label of a
\* non-deleting bundle, the event returns an error and makes no ManifestWork
\* call at all.
C7_UnresolvedReturnsError ==
    [][\A b \in Bundles :
          FindsNoDecision(b) =>
              (Returns(b, "err") /\ works' = works /\ NoWorkCalls(Event(b)))]_vars

\* an event ended with an error right after a decision list that matched nothing
C7_Witness ==
    \E b \in Bundles :
        /\ bundles[b].exists /\ ~bundles[b].deleting
        /\ getPlacementLabel(bundles[b]) # NoLabel /\ Len(Resolved(b)) = 0
        /\ Ended(b, "err", Entry("ListDecisions", NoKey, "ok"))

\* ------------------------------------------------------------------ C8
\* a store call that failed; a NotFound read of the bundle or of a ManifestWork
\* is an answer (the object is absent), not a failure
Failure(e) ==
    /\ e.res # "ok"
    /\ ~(e.op \in {"GetBundle", "GetWork"} /\ e.res = "NotFound")

LiveInit == Created({Held("b1")}, {Complete("b2")})

Fairness ==
    \A b \in Bundles : /\ WF_vars(StartReconcile(b))
                        /\ WF_vars(Reconcile(b))
                        /\ WF_vars(ExternalRemoveFinalizer(b))

Disturbance ==
    \/ decisions' # decisions
    \/ \E b \in Bundles : Acts(b) /\ Last(log'[b]).res = "Transport"

LiveSpec == LiveInit /\ [][Next]_vars /\ Fairness /\ <>[][~Disturbance]_vars

\* ------------------------------------------------------------------ C9
\* every target of the bundle's decision holds the ManifestWork generated from
\* the stored bundle: name, spec, labels with the ownership label, annotations
Converged(b) ==
    \A c \in TargetsOf(b) :
        /\ <<c, bundles[b].name>> \in DOMAIN works
        /\ works[<<c, bundles[b].name>>] = StoreCreate(generateManifest(bundles[b], c))

\* C9: under redelivery, once failures and decision rewrites have stopped, every
\* non-deleting bundle with manifests and a resolved placement eventually has
\* its ManifestWork, equal to what the bundle generates, on every target, and
\* keeps it from then on.
C9_EventualConvergence ==
    \A b \in Bundles : <>[](Schedulable(b) => Converged(b))

\* ----------------------------------------------------------------- C10
\* C10: under redelivery, a bundle under deletion that carries the finalizer is
\* eventually erased from the store with no ManifestWork left carrying its UID.
C10_DeletionCompletes ==
    \A b \in Bundles :
        (HasFinalizer(bundles[b]) /\ bundles[b].deleting)
            ~> (Gone(b) /\ Owned(UidOf(b)) = {})

\* a deletion ran to its end: the finalizer-remove update of the bundle's own
\* event succeeded, the bundle is erased and no ManifestWork is left
C10_Witness ==
    \E b \in Bundles :
        /\ Gone(b) /\ Ended(b, "ok", Entry("RemoveFinalizer", NoKey, "ok"))
        /\ works = NoWorks

\* ----------------------------------------------------------------- C11
ScheduleOps == {"GetWork", "CreateWork", "UpdateWork"}

\* the event whose calls are l created or updated the ManifestWork at key k
Wrote(l, k) ==
    \E n \in DOMAIN l : /\ l[n].op \in {"CreateWork", "UpdateWork"}
                        /\ l[n].key = k /\ l[n].res = "ok"

\* C11: when a store call of the loop fails on one cluster of the decision, the
\* event still creates or updates the ManifestWork of every other cluster of the
\* decision, those after the failed one included, before it returns.
C11_FailedTargetDoesNotBlock ==
    [][\A b \in Bundles :
          (\E op \in ScheduleOps : \E err \in {"Transport", "Conflict", "AlreadyExists"} :
               Did(b, op, err)) =>
              \A n \in DOMAIN local[b].decision :
                  n # local[b].i =>
                      Wrote(Event(b), <<local[b].decision[n], local[b].bundle.name>>)]_vars

\* ----------------------------------------------------------------- C12
\* C12: when the sweep's delete finds that a listed ManifestWork is already gone
\* (deleted by somebody else after the list call), the sweep does not fail: the
\* event does not return an error and moves on to the next listed item or, after
\* the last one, to the finalizer-remove update.
C12_SweepToleratesNotFound ==
    [][\A b \in Bundles :
          Did(b, "DeleteWork", "NotFound") =>
              (~Returns(b, "err") /\ pc'[b] = AfterDelete(b))]_vars

\* ----------------------------------------------------------------- C13
\* this step is worker b creating or updating the ManifestWork at key k
Writes(b, k) ==
    /\ Did(b, "CreateWork", "ok") \/ Did(b, "UpdateWork", "ok")
    /\ Last(log'[b]).key = k

\* C13: the ManifestWork a create or update of the loop leaves in cluster
\* namespace c for a bundle has the bundle's name, namespace c, the bundle's UID
\* in the ownership label, the bundle's other labels, its annotations and its
\* manifests, whatever was stored there before; an update keeps the metadata the
\* store assigned to the existing ManifestWork.
C13_ArtifactFromBundleOnly ==
    [][\A b \in Bundles : \A k \in Keys :
          Writes(b, k) =>
              /\ k = <<Target(b), bundles[b].name>>
              /\ works'[k].name = bundles[b].name
              /\ works'[k].namespace = Target(b)
              /\ works'[k].labels = [bundles[b].labels EXCEPT !.owned = bundles[b].uid]
              /\ works'[k].annotations = bundles[b].annotations
              /\ works'[k].spec = bundles[b].manifests
              /\ works'[k].uid = WorkUid
              /\ Did(b, "UpdateWork", "ok") => works'[k].uid = works[k].uid]_vars

\* an update replaced the ManifestWork another bundle's last event had created:
\* labels, annotations and spec are now the updating bundle's
C13_Witness ==
    \E b \in Bundles : \E k \in Keys :
        /\ Ended(b, "ok", Entry("UpdateWork", k, "ok"))
        /\ k \in DOMAIN works /\ works[k].labels.owned = UidOf(b)
        /\ works[k].annotations = bundles[b].annotations
        /\ \E x \in Bundles \ {b} :
               /\ Ended(x, "ok", Entry("CreateWork", k, "ok"))
               /\ bundles[x].annotations # works[k].annotations

\* ----------------------------------------------------------------- C14
\* C14: a ManifestWork that exists with one bundle's UID in its ownership label
\* is never changed by a reconcile event of another bundle: its ownership label,
\* spec, labels and annotations stay as they are.
C14_ExclusiveOwnership ==
    [][\A b \in Bundles : \A k \in (DOMAIN works) \cap (DOMAIN works') :
          (Acts(b) /\ works[k].labels.owned # UidOf(b)) =>
              /\ works'[k].labels = works[k].labels
              /\ works'[k].spec = works[k].spec
              /\ works'[k].annotations = works[k].annotations]_vars

\* ----------------------------------------------------------------- C15
\* this step is worker b reading a bundle that is under deletion and does not
\* carry the controller's finalizer
ReadsReleased(b) ==
    /\ Did(b, "GetBundle", "ok")
    /\ bundles[b].deleting /\ ~HasFinalizer(bundles[b])

\* C15: an event that finds its bundle gone from the store, or under deletion
\* with the finalizer already absent, returns success with the read of the
\* bundle as its only store call: the bundle store and the ManifestWork store
\* are left as they are.
C15_NothingToDo ==
    [][\A b \in Bundles :
          (Did(b, "GetBundle", "NotFound") \/ ReadsReleased(b)) =>
              /\ Returns(b, "ok")
              /\ Len(Event(b)) = 1
              /\ bundles' = bundles /\ works' = works]_vars

\* one worker is back from an event on an erased bundle, the other from an event
\* on a bundle under deletion that another controller's finalizer still holds
C15_Witness ==
    \E b \in Bundles : \E x \in Bundles \ {b} :
        /\ Gone(b) /\ Ended(b, "ok", Entry("GetBundle", NoKey, "NotFound"))
        /\ bundles[x].exists /\ bundles[x].deleting /\ ~HasFinalizer(bundles[x])
        /\ Ended(x, "ok", Entry("GetBundle", NoKey, "ok"))

\* ----------------------------------------------------------------- C16
\* this step belongs to an event of worker b that read a bundle which is not
\* under deletion and has no placement label
NoPlacementEvent(b) ==
    \/ /\ Did(b, "GetBundle", "ok")
       /\ ~bundles[b].deleting /\ getPlacementLabel(bundles[b]) = NoLabel
    \/ /\ Acts(b) /\ pc[b] = "AddFinalizer"
       /\ getPlacementLabel(local[b].bundle) = NoLabel

\* the only store calls of such an event are the read of the bundle and the
\* finalizer-add update, and the bundle store changes by that update only
OnlyAddsFinalizer(b) ==
    /\ \A n \in DOMAIN Event(b) : Event(b)[n].op \in {"GetBundle", "AddFinalizer"}
    /\ works' = works
    /\ bundles' # bundles =>
           /\ Did(b, "AddFinalizer", "ok")
           /\ bundles' = [bundles EXCEPT ![b].finalizers = @ \cup {DeployFinalizer}]

\* C16 (as claimed): an event for a bundle that is not under deletion and has no
\* placement label returns success; it makes no ManifestWork call and its only
\* write is the finalizer-add update when the finalizer was absent.
C16_NoPlacementReturnsSuccess ==
    [][\A b \in Bundles :
          NoPlacementEvent(b) =>
              /\ Returns(b, "ok") \/ pc'[b] = "AddFinalizer"
              /\ OnlyAddsFinalizer(b)]_vars

\* C16 (amended): such an event returns success unless its finalizer-add update
\* fails, and then it returns that error; either way it makes no ManifestWork
\* call and its only write is the finalizer-add update.
C16_NoPlacementNoArtifacts ==
    [][\A b \in Bundles :
          NoPlacementEvent(b) =>
              /\ \/ Returns(b, "ok") /\ ~Failure(Last(log'[b]))
                 \/ pc'[b] = "AddFinalizer"
                 \/ /\ Returns(b, "err") /\ pc[b] = "AddFinalizer"
                    /\ Failure(Last(log'[b]))
              /\ OnlyAddsFinalizer(b)]_vars

\* the finalizer-add update of a bundle without placement label failed and the
\* event returned the error, leaving the bundle without the finalizer
C16_Witness ==
    \E b \in Bundles :
        /\ bundles[b].exists /\ getPlacementLabel(bundles[b]) = NoLabel
        /\ ~HasFinalizer(bundles[b])
        /\ Ended(b, "err", Entry("AddFinalizer", NoKey, "Transport"))

\* ----------------------------------------------------------------- C17
\* positions, in the store's list order, of the decisions that live in the
\* bundle's namespace and carry exactly its placement label
MatchesOf(b) ==
    {n \in DOMAIN decisions : /\ decisions[n].ns = bundles[b].ns
                              /\ decisions[n].placement = bundles[b].labels.placement}

FirstMatch(b) == decisions[CHOOSE n \in MatchesOf(b) : \A m \in MatchesOf(b) : n <= m]

\* C17: the clusters an event works on are those of the first PlacementDecision,
\* among the stored ones, of the bundle's own namespace whose placement label
\* equals the bundle's, as the event's own list call found them: no event starts
\* with a decision in hand, the loop keeps the decision the list call gave it,
\* and every ManifestWork created or updated is in a cluster of that decision.
C17_TargetsFromFirstFreshMatch ==
    [][\A b \in Bundles :
          /\ pc[b] \in {"idle", "Get", "AddFinalizer", "Resolve"} =>
                 local[b].decision = <<>>
          /\ (Did(b, "ListDecisions", "ok") /\ pc'[b] # "idle") =>
                 /\ MatchesOf(b) # {}
                 /\ local'[b].decision = FirstMatch(b).clusters
          /\ (Acts(b) /\ pc[b] # "Resolve" /\ pc'[b] # "idle") =>
                 local'[b].decision = local[b].decision
          /\ \A k \in Keys :
                 Writes(b, k) =>
                     \E n \in DOMAIN local[b].decision : local[b].decision[n] = k[1]]_vars

\* two stored decisions match the bundle's placement, and the bundle has its
\* ManifestWork in the first one's cluster and in no other
C17_Witness ==
    \E b \in Bundles :
        /\ bundles[b].exists /\ Cardinality(MatchesOf(b)) = 2
        /\ FirstMatch(b).clusters = <<"west">>
        /\ Ended(b, "ok", Entry("CreateWork", <<"west", bundles[b].name>>, "ok"))
        /\ Owned(UidOf(b)) = {<<"west", bundles[b].name>>}
        /\ DOMAIN works = Owned(UidOf(b))

\* ----------------------------------------------------------------- C18
\* C18: a ManifestWork is created or updated for a bundle only while the stored
\* bundle carries the controller's finalizer; an event whose finalizer-add update
\* fails returns the error in that step, having made no ManifestWork call.
C18_FinalizerBeforeArtifacts ==
    [][\A b \in Bundles :
          /\ \A k \in Keys : Writes(b, k) => HasFinalizer(bundles[b])
          /\ (Acts(b) /\ pc[b] = "AddFinalizer" /\ Failure(Last(log'[b]))) =>
                 /\ Returns(b, "err")
                 /\ NoWorkCalls(Event(b)) /\ works' = works
                 /\ bundles' = bundles]_vars

\* the finalizer-add update of a bundle that is ready to be scheduled failed:
\* the event returned the error, the finalizer is not registered, and there is
\* no ManifestWork of the bundle
C18_Witness ==
    \E b \in Bundles :
        /\ Schedulable(b) /\ ~HasFinalizer(bundles[b])
        /\ Ended(b, "err", Entry("AddFinalizer", NoKey, "Transport"))
        /\ Owned(UidOf(b)) = {}

\* ----------------------------------------------------------------- C19
\* this step belongs to an event of worker b that read its bundle with a
\* deletion timestamp
DeletingEvent(b) ==
    \/ Did(b, "GetBundle", "ok") /\ bundles[b].deleting
    \/ Acts(b) /\ local[b].bundle.deleting

\* C19: an event that read its bundle with a deletion timestamp makes no
\* PlacementDecision list call and no ManifestWork get, create or update, with
\* or without the finalizer and whether the sweep succeeds or fails: besides the
\* bundle calls it only lists and deletes ManifestWorks, so no ManifestWork
\* appears or changes.
C19_DeletingOnlySweeps ==
    [][\A b \in Bundles :
          DeletingEvent(b) =>
              /\ \A n \in DOMAIN Event(b) :
                     Event(b)[n].op \in {"GetBundle", "ListWorks", "DeleteWork",
                                         "RemoveFinalizer"}
              /\ local'[b].decision = <<>>
              /\ \A k \in DOMAIN works' : k \in DOMAIN works /\ works'[k] = works[k]]_vars

\* the list call of a sweep failed: the event returned the error and the
\* ManifestWorks of the bundle under deletion are still there
C19_Witness ==
    \E b \in Bundles :
        /\ bundles[b].deleting /\ HasFinalizer(bundles[b])
        /\ Ended(b, "err", Entry("ListWorks", NoKey, "Transport"))
        /\ Owned(UidOf(b)) # {}

\* ----------------------------------------------------------------- C20
\* C20: a step of a reconcile event changes the stored bundle of its own
\* identity only, and only by adding the controller's finalizer or by taking it
\* off (after which the store erases the bundle if no finalizer is left): name,
\* UID, labels, annotations, manifests and the other finalizers stay as stored,
\* and no stored bundle ever carries the ownership label.
C20_OnlyFinalizersChange ==
    [][\A b \in Bundles :
          /\ Acts(b) =>
                 /\ \A x \in Bundles \ {b} : bundles'[x] = bundles[x]
                 /\ \/ bundles'[b] = bundles[b]
                    \/ bundles'[b] =
                           [bundles[b] EXCEPT !.finalizers = @ \cup {DeployFinalizer}]
                    \/ bundles'[b] =
                           Settle([bundles[b] EXCEPT !.finalizers = @ \ {DeployFinalizer}])
          /\ bundles'[b].labels.owned = NoLabel]_vars

\* the loop has generated a manifest, so the label map of Reconcile's bundle
\* variable holds the ownership label, while neither the copy used for updates
\* nor the stored bundle has it
C20_Witness ==
    \E b \in Bundles :
        /\ pc[b] = "ScheduleUpdate"
        /\ local[b].bundle.labels.owned = UidOf(b)
        /\ local[b].b.labels.owned = NoLabel
        /\ HasFinalizer(bundles[b]) /\ bundles[b].labels.owned = NoLabel

====
